---- MODULE Spec2Model ----
(***************************************************************************)
(* Ride lifecycle of the Uber-clone backend (compiled index.js): the       *)
(* in-memory ride registry `rides`, the route handlers that move a ride    *)
(* through its statuses, the Stripe PaymentIntent calls made on accept and *)
(* complete, and the ride rooms the handlers broadcast to.                 *)
(*                                                                         *)
(* Node runs every handler on one thread: a handler runs without           *)
(* interruption up to its first pending `await`, and again from the        *)
(* resumption to the next one.  Each such run is one action here.  Accept  *)
(* awaits stripe.paymentIntents.create and complete awaits                 *)
(* stripe.paymentIntents.capture, so each of them is two actions.          *)
(*                                                                         *)
(* A ride is a JavaScript object; the handlers keep a reference to the     *)
(* object they looked up across an await.  `objs` is the heap of ride      *)
(* objects and `rides` maps an id to the index of the object registered    *)
(* under it.                                                               *)
(***************************************************************************)
EXTENDS Integers, Sequences, FiniteSets, Bags, TLC

\* ------------------------------------------------------------------ bounds
MaxClock == 2      \* clock ticks (values of Date.now()) the model runs through
MaxObjs == 2       \* ride objects created by POST /rides
MaxRoomRides == 1  \* ride objects created where rooms, locations, fares and the store are specified
MaxStoreCalls == 1 \* writes and selects sent to the store and not yet answered
MaxEvents == 2     \* distinct Stripe event ids
MaxDeliveries == 3 \* webhook requests received
DedupCapacity == 1 \* size the in-memory dedup set is cut back to (1000 in the code)
MaxRefunds == 2    \* refund records created by POST /rides/:id/refund
MaxRefundCalls == 2 \* stripe.refunds.create calls issued

RideIds == 1..MaxClock          \* `ride_${Date.now()}`: one id per clock tick
Sockets == {"s1", "s2"}         \* WebSocket connections
DriverBodies == {"", "d1"}      \* req.body.driverId ("" stands for empty or missing)
PiRefs == RideIds               \* PaymentIntent ids, one per idempotency key
NoPi == 0                       \* ride.paymentIntentId === undefined
NoDriver == "none"              \* ride.driverId === undefined
NoObj == 0
Events == 1..MaxEvents          \* event.id of a webhook delivery
Deliveries == {"w1", "w2"}      \* webhook requests that can be in flight at once
Signatures == {"missing", "invalid", "valid"}   \* the stripe-signature header
RefundIds == 1..MaxClock        \* `rf_${Date.now()}`: one id per clock tick
NoRefundRef == 0                \* rr.refundId === undefined

Statuses == {"requested", "matched", "accepted", "in_progress", "completed", "cancelled"}

VARIABLES
    now,            \* Date.now()
    stripeKey,      \* Boolean(process.env.STRIPE_SECRET_KEY)
    objs,           \* heap of ride objects
    rides,          \* const rides = new Map(): id -> index into objs
    rideRooms,      \* const rideRooms = new Map(): id -> set of sockets
    sockRide,       \* per connection: the rideId of its URL, 0 when not connected
    sockBroken,     \* connections whose send() throws
    acceptWait,     \* ride objects whose accept handler awaits paymentIntents.create
    captureWait,    \* ride objects whose complete handler awaits paymentIntents.capture
    createCalls,    \* paymentIntents.create calls issued, per metadata.rideId
    captureCalls,   \* paymentIntents.capture calls issued, per PaymentIntent id
    last,           \* the handler run that made the last step: its response and broadcast
    dbRides,        \* the rows of the store's rides table, by id
    dbWrites,       \* inserts and updates of rides sent to the store and not yet answered
    getWait,        \* ids of the GET /rides/:id handlers that await the store's select
    heard,          \* per connection: the statuses of the ride events it has received
    supabaseReady,  \* isSupabaseReady()
    stripeEvents,   \* ids of the rows of the stripe_events table
    processedStripeEvents,  \* const processedStripeEvents = new Set(), in insertion order
    webhooks,       \* per webhook request: where its handler is, and its event id
    handled,        \* per event id: how often a delivery passed the check and was processed
    acked,          \* event ids of which a delivery was acknowledged with 200
    delivered,      \* webhook requests received so far
    whLast,         \* the last webhook handler run and its response
    rfObjs,         \* heap of refund records
    refunds,        \* const refunds = new Map(): id -> index into rfObjs
    approveWait,    \* refund records whose approve handlers await refunds.create, with multiplicity
    refundCalls,    \* stripe.refunds.create calls issued, per refund record
    rfLast          \* the last refund handler run and its response

rideVars == <<now, stripeKey, objs, rides, rideRooms, sockRide, sockBroken, acceptWait,
              captureWait, createCalls, captureCalls, last, dbRides, dbWrites, getWait,
              heard>>
webhookVars == <<supabaseReady, stripeEvents, processedStripeEvents, webhooks, handled,
                 acked, delivered, whLast>>
refundVars == <<rfObjs, refunds, approveWait, refundCalls, rfLast>>
vars == <<rideVars, webhookVars, refundVars>>

\* ------------------------------------------------------------------ helpers
NoCoord == 999                  \* ride.driverLat / ride.driverLng === undefined
Lats == {-91, -90, 90, 91}      \* req.body.lat
Lngs == {-181, -180, 180, 181}  \* req.body.lng

\* The parsed body of POST /rides and POST /rides/quote: pickup and dropoff,
\* held as the whole metres between them, and the ride type.
RideTypes == {"standard", "premium", "xl"}
Metres == {0, 1425, 2083, 2084, 10000}
Trips == [metres : Metres, rideType : RideTypes]
NoTrip == [metres |-> 0, rideType |-> "none"]
Trip0 == [metres |-> 10000, rideType |-> "standard"]
NoQuote == 0                    \* no quoteUsd in the body

NoBody == [id |-> 0, status |-> "none", driverId |-> NoDriver, paymentIntentId |-> NoPi,
           driverLat |-> NoCoord, driverLng |-> NoCoord, trip |-> NoTrip,
           quoteUsd |-> NoQuote]
NoEvent == [type |-> "none", status |-> "none"]

\* What one handler run did: the route, the :id it was called with, the HTTP
\* status it answered with (0: no answer yet, the handler is awaiting), the ride
\* object it holds, the JSON body and the payload handed to broadcastToRide
\* together with the sockets client.send was called on.
Did(op, id, code, obj, body, event, sentTo) ==
    [op |-> op, id |-> id, code |-> code, obj |-> obj, body |-> body,
     event |-> event, sentTo |-> sentTo]

Has(id) == id \in DOMAIN rides
Obj(id) == objs[rides[id]]

\* The room, were it to hold every connected socket whatever its rideId.
RoomOfAll(id) == {s \in Sockets : sockRide[s] # 0}

\* rideRooms.get(rideId), an absent room standing for no socket
Room(id) == IF id \in DOMAIN rideRooms THEN rideRooms[id] ELSE {}

\* broadcastToRide, were a throwing send to end the loop before any other
\* client is sent to.
BroadcastStopsAtThrow(id) == IF Room(id) \cap sockBroken = {} THEN Room(id) ELSE {}

\* broadcastToRide: for (const client of room) { try { client.send(data) } catch { } }
\* The sockets send is called on: a throw is caught per client and the loop goes on.
Broadcast(id) == Room(id)
Updated(r) == [type |-> "ride.updated", status |-> r.status]

\* rides.set(id, i)
RidesSet(id, i) == (id :> i) @@ rides

\* A webhook handler that is not running, and the response of none.
Idle == [pc |-> "idle", event |-> 0, after |-> FALSE]
NoAnswer == [op |-> "init", event |-> 0, sig |-> "missing", code |-> 0,
             duplicate |-> FALSE, checked |-> FALSE, after |-> FALSE]

InitRides ==
    /\ now = 1
    /\ stripeKey \in BOOLEAN
    /\ objs = << >>
    /\ rides = << >>
    /\ rideRooms = << >>
    /\ sockRide = [s \in Sockets |-> 0]
    /\ sockBroken = {}
    /\ acceptWait = {}
    /\ captureWait = {}
    /\ createCalls = [id \in RideIds |-> 0]
    /\ captureCalls = [p \in PiRefs |-> 0]
    /\ last = Did("init", 0, 0, NoObj, NoBody, NoEvent, {})
    /\ dbRides = << >>
    /\ dbWrites = {}
    /\ getWait = {}
    /\ heard = [s \in Sockets |-> {}]

\* No refund requested yet, and the response of no refund route.
NoRefund == [id |-> 0, rideId |-> 0, status |-> "none", refundId |-> NoRefundRef]
RfDid(op, id, code, obj, body) ==
    [op |-> op, id |-> id, code |-> code, obj |-> obj, body |-> body]

NoRefunds ==
    /\ rfObjs = << >>
    /\ refunds = << >>
    /\ approveWait = EmptyBag
    /\ refundCalls = << >>
    /\ rfLast = RfDid("init", 0, 0, NoObj, NoRefund)

NoWebhooks ==
    /\ stripeEvents = {}
    /\ processedStripeEvents = << >>
    /\ webhooks = [w \in Deliveries |-> Idle]
    /\ handled = [e \in Events |-> 0]
    /\ acked = {}
    /\ delivered = 0
    /\ whLast = NoAnswer

\* The ride routes answer and change the registry in the same way with and
\* without a store (their persistence is fire-and-forget), so the store is
\* left out where the ride routes are specified.
Init == InitRides /\ NoWebhooks /\ NoRefunds /\ supabaseReady = FALSE

\* What a ride route or a socket leaves alone, what a webhook does, and what a
\* refund route does.
WebhookSame == UNCHANGED <<webhookVars, refundVars>>
RidesSame == UNCHANGED <<rideVars, refundVars>>
RefundsOnly == UNCHANGED <<rideVars, webhookVars>>

\* What the connections have received after a handler run: client.send and
\* socket.send deliver ride.snapshot and ride.updated to the sockets they are
\* called on, unless send throws; a connection that is closed has received
\* nothing.
Hears ==
    heard' = [s \in Sockets |->
                IF sockRide'[s] = 0 THEN {}
                ELSE IF /\ s \in last'.sentTo \ sockBroken
                        /\ last'.event.type \in {"ride.snapshot", "ride.updated"}
                     THEN heard[s] \cup {last'.event.status}
                     ELSE heard[s]]

\* A step that sends nothing to the store.
NoPersist == UNCHANGED <<dbRides, dbWrites, getWait>>

\* The call a best-effort persist makes: the kind of write ("insert", or an
\* update of the "accept", "status" or "location" columns), the ride object the
\* closure holds and its fields at the time of the call.
Write(kind, i, ride) == [kind |-> kind, obj |-> i, ride |-> ride]

\* (async () => { try { if (isSupabaseReady()) await supabase.from("rides")... } catch { } })()
\* The call is made at once and nobody awaits its answer.
Persist(w) ==
    /\ dbWrites' = IF supabaseReady THEN dbWrites \cup {w} ELSE dbWrites
    /\ UNCHANGED <<dbRides, getWait>>

\* The clock advances between handler runs.
Tick ==
    /\ now < MaxClock
    /\ now' = now + 1
    /\ last' = Did("tick", 0, 0, NoObj, NoBody, NoEvent, {})
    /\ UNCHANGED <<stripeKey, objs, rides, rideRooms, sockRide, sockBroken, acceptWait,
                   captureWait, createCalls, captureCalls>>
    /\ NoPersist /\ WebhookSame /\ Hears

\* Every step but these changes nothing of the processor's and the rooms' state.
ProcessorSame == UNCHANGED <<createCalls, captureCalls>>
RoomsSame == UNCHANGED <<rideRooms, sockRide, sockBroken>>
WaitSame == UNCHANGED <<acceptWait, captureWait>>

\* A handler that answers with an error before touching anything.
Reject(op, id, code) ==
    /\ last' = Did(op, id, code, NoObj, NoBody, NoEvent, {})
    /\ UNCHANGED <<now, stripeKey, objs, rides, rideRooms, sockRide, sockBroken,
                   acceptWait, captureWait, createCalls, captureCalls>>
    /\ NoPersist /\ WebhookSame /\ Hears

\* ------------------------------------------------------------------ POST /rides
\* const rideId = `ride_${Date.now()}`
NewRideId == now

\* rideType === "premium" ? 1.8 : rideType === "xl" ? 2.0 : 1.2, in tenths
PerKm(rideType) == IF rideType = "premium" THEN 18 ELSE IF rideType = "xl" THEN 20 ELSE 12

\* Math.round(x * 100) for x >= 0 given in ten-thousandths: halves go up
RoundCents(x) == (x + 50) \div 100

Max(a, b) == IF a >= b THEN a ELSE b

\* The quote of POST /rides, were its xl rate to drift from that of the
\* standalone quote.
RideQuoteDrift(trip) ==
    Max(500, RoundCents(25000 + trip.metres *
                                (IF trip.rideType = "xl" THEN 22 ELSE PerKm(trip.rideType))))

\* quoteUsd = Math.max(5, Math.round((2.5 + km * perKm) * 100) / 100), in cents
RideQuote(trip) == Max(500, RoundCents(25000 + trip.metres * PerKm(trip.rideType)))

\* estimate = Math.max(5, Math.round((base + km * perKm) * 100) / 100), in cents
QuoteEstimate(trip) == Max(500, RoundCents(25000 + trip.metres * PerKm(trip.rideType)))

\* const ride = { id: rideId, status: "requested", quoteUsd, ...parse.data }
NewRide(trip) ==
    [id |-> NewRideId, status |-> "requested", driverId |-> NoDriver,
     paymentIntentId |-> NoPi, driverLat |-> NoCoord, driverLng |-> NoCoord,
     trip |-> trip, quoteUsd |-> RideQuote(trip)]

\* `valid` is rideRequestSchema.safeParse(req.body).success, `trip` its data
Request(valid, trip) ==
    IF ~valid
    THEN Reject("request", 0, 400)
    ELSE /\ objs' = Append(objs, NewRide(trip))
         /\ rides' = RidesSet(NewRideId, Len(objs) + 1)
         /\ last' = Did("request", NewRideId, 201, Len(objs) + 1, NewRide(trip),
                        Updated(NewRide(trip)), Broadcast(NewRideId))
         /\ Persist(Write("insert", Len(objs) + 1, NewRide(trip)))
         /\ UNCHANGED <<now, stripeKey>>
         /\ ProcessorSame /\ RoomsSame /\ WaitSame /\ WebhookSame /\ Hears

\* ------------------------------------------------------------------ POST /rides/quote
\* return res.json({ distanceKm, currency: "usd", estimate })
Quote(valid, trip) ==
    IF ~valid
    THEN Reject("quote", 0, 400)
    ELSE /\ last' = Did("quote", 0, 200, NoObj,
                        [NoBody EXCEPT !.trip = trip, !.quoteUsd = QuoteEstimate(trip)],
                        NoEvent, {})
         /\ UNCHANGED <<now, stripeKey, objs, rides>>
         /\ ProcessorSame /\ RoomsSame /\ WaitSame /\ NoPersist /\ WebhookSame /\ Hears

\* ------------------------------------------------------------------ POST /rides/:id/accept
\* The guard of accept, were it to let an accepted ride be accepted again.
AcceptAllowedAgain(ride) == ride.status \in {"requested", "accepted"}

\* if (ride.status !== "requested") return 409
AcceptAllowed(ride) == ride.status = "requested"

\* acceptSchema, were it to take any body.
AcceptBodyOkAny(d) == TRUE

\* acceptSchema: driverId is a string of at least one character
AcceptBodyOk(d) == d # ""

\* if (process.env.STRIPE_SECRET_KEY && ride.quoteUsd && !ride.paymentIntentId)
\* (ride.quoteUsd is Math.max(5, ...), never falsy)
WantsPaymentIntent(ride) == stripeKey /\ ride.paymentIntentId = NoPi

\* rides.set(ride.id, ride); broadcastToRide(...); the best-effort update;
\* return res.json(ride)
AcceptFinish(op, i, ride) ==
    /\ rides' = RidesSet(ride.id, i)
    /\ last' = Did(op, ride.id, 200, i, ride, Updated(ride), Broadcast(ride.id))
    /\ Persist(Write("accept", i, ride))

\* The handler up to `await stripe.paymentIntents.create(...)`, or to its end
\* when no PaymentIntent is to be created.
AcceptBegin(id, d) ==
    IF ~Has(id) THEN Reject("accept", id, 404)
    ELSE IF ~AcceptAllowed(Obj(id)) THEN Reject("accept", id, 409)
    ELSE IF ~AcceptBodyOk(d) THEN Reject("accept", id, 400)
    ELSE LET i == rides[id]
             ride == [objs[i] EXCEPT !.status = "accepted", !.driverId = d]
         IN /\ objs' = [objs EXCEPT ![i] = ride]
            /\ IF WantsPaymentIntent(ride)
               THEN /\ createCalls' = [createCalls EXCEPT ![ride.id] = @ + 1]
                    /\ acceptWait' = acceptWait \cup {i}
                    /\ last' = Did("accept", id, 0, i, NoBody, NoEvent, {})
                    /\ UNCHANGED <<rides, captureCalls, captureWait>>
                    /\ NoPersist
               ELSE /\ AcceptFinish("accept", i, ride)
                    /\ ProcessorSame /\ WaitSame
            /\ UNCHANGED <<now, stripeKey>>
            /\ RoomsSame /\ WebhookSame /\ Hears

\* pi.id, when create resolves.  The call carries idempotencyKey
\* `ride_accept_${ride.id}`: the processor creates one PaymentIntent per key and
\* answers a repeated key with the PaymentIntent it created for it, so the
\* PaymentIntent is named here by the ride id of its key.
CreatedPi(id) == id

\* The catch of accept, were it to undo the acceptance when create threw.
AfterCreateRollback(ride, ok, pi) ==
    IF ok THEN [ride EXCEPT !.paymentIntentId = pi]
          ELSE [ride EXCEPT !.status = "requested", !.driverId = NoDriver]

\* try { const pi = await ...create(...); ride.paymentIntentId = pi.id } catch { }
AfterCreate(ride, ok, pi) ==
    IF ok THEN [ride EXCEPT !.paymentIntentId = pi] ELSE ride

\* The handler from the resumption of the await: `ok` is whether create
\* resolved or threw.
AcceptResume(i, ok) ==
    /\ i \in acceptWait
    /\ acceptWait' = acceptWait \ {i}
    /\ LET id == objs[i].id
           ride == AfterCreate(objs[i], ok, CreatedPi(id))
       IN /\ objs' = [objs EXCEPT ![i] = ride]
          /\ AcceptFinish("accept_resume", i, ride)
    /\ UNCHANGED <<now, stripeKey, createCalls, captureCalls, captureWait>>
    /\ RoomsSame /\ WebhookSame /\ Hears

\* ------------------------------------------------------------------ POST /rides/:id/start
\* The guard of start, were it to let a ride start before it is accepted.
StartAllowedEarly(ride) == ride.status \in {"requested", "accepted"}

\* if (ride.status !== "accepted") return 409
StartAllowed(ride) == ride.status = "accepted"

\* ride.status = ...; rides.set(ride.id, ride); broadcastToRide(ride.id, ...)
\* with `code` 0 when the handler goes on to an await before it answers.
Transition(op, id, status, code) ==
    LET i == rides[id]
        ride == [objs[i] EXCEPT !.status = status]
    IN /\ objs' = [objs EXCEPT ![i] = ride]
       /\ rides' = RidesSet(ride.id, i)
       /\ last' = Did(op, id, code, i, IF code = 0 THEN NoBody ELSE ride,
                      Updated(ride), Broadcast(ride.id))
       /\ Persist(Write("status", i, ride))

Start(id) ==
    IF ~Has(id) THEN Reject("start", id, 404)
    ELSE IF ~StartAllowed(Obj(id)) THEN Reject("start", id, 409)
    ELSE /\ Transition("start", id, "in_progress", 200)
         /\ UNCHANGED <<now, stripeKey>>
         /\ ProcessorSame /\ RoomsSame /\ WaitSame /\ WebhookSame /\ Hears

\* ------------------------------------------------------------------ POST /rides/:id/complete
\* The guard of complete, were it to insist on in_progress.
CompleteAllowedStrict(ride) == ride.status = "in_progress"

\* if (ride.status !== "in_progress" && ride.status !== "accepted") return 409
CompleteAllowed(ride) == ride.status \in {"in_progress", "accepted"}

\* if (process.env.STRIPE_SECRET_KEY && ride.paymentIntentId)
WantsCapture(ride) == stripeKey /\ ride.paymentIntentId # NoPi

\* The handler up to `await stripe.paymentIntents.capture(...)`, or to its end
\* when there is nothing to capture.
CompleteBegin(id) ==
    IF ~Has(id) THEN Reject("complete", id, 404)
    ELSE IF ~CompleteAllowed(Obj(id)) THEN Reject("complete", id, 409)
    ELSE /\ IF WantsCapture(Obj(id))
            THEN /\ Transition("complete", id, "completed", 0)
                 /\ captureCalls' =
                        [captureCalls EXCEPT ![Obj(id).paymentIntentId] = @ + 1]
                 /\ captureWait' = captureWait \cup {rides[id]}
            ELSE /\ Transition("complete", id, "completed", 200)
                 /\ UNCHANGED <<captureCalls, captureWait>>
         /\ UNCHANGED <<now, stripeKey, createCalls, acceptWait>>
         /\ RoomsSame /\ WebhookSame /\ Hears

\* The handler from the resumption of the await, whether capture resolved or
\* threw (catch { }): return res.json(ride)
CompleteResume(i, ok) ==
    /\ i \in captureWait
    /\ captureWait' = captureWait \ {i}
    /\ last' = Did("complete_resume", objs[i].id, 200, i, objs[i], NoEvent, {})
    /\ UNCHANGED <<now, stripeKey, objs, rides, acceptWait>>
    /\ ProcessorSame /\ RoomsSame /\ NoPersist /\ WebhookSame /\ Hears

\* ------------------------------------------------------------------ POST /rides/:id/cancel
\* The guard of cancel, were it to let an accepted ride be cancelled.
CancelAllowedLate(ride) == ride.status \in {"requested", "accepted"}

\* if (ride.status !== "requested") return 409
CancelAllowed(ride) == ride.status = "requested"

Cancel(id) ==
    IF ~Has(id) THEN Reject("cancel", id, 404)
    ELSE IF ~CancelAllowed(Obj(id)) THEN Reject("cancel", id, 409)
    ELSE /\ Transition("cancel", id, "cancelled", 200)
         /\ UNCHANGED <<now, stripeKey>>
         /\ ProcessorSame /\ RoomsSame /\ WaitSame /\ WebhookSame /\ Hears

\* ------------------------------------------------------------------ POST /rides/:id/driver_location
\* driverLocSchema, were its ranges to leave their ends out.
DriverLocOkOpen(lat, lng) == lat > -90 /\ lat < 90 /\ lng > -180 /\ lng < 180

\* driverLocSchema: lat gte(-90).lte(90), lng gte(-180).lte(180)
DriverLocOk(lat, lng) == lat >= -90 /\ lat <= 90 /\ lng >= -180 /\ lng <= 180

DriverLocation(id, lat, lng) ==
    IF ~Has(id) THEN Reject("driver_location", id, 404)
    ELSE IF ~DriverLocOk(lat, lng) THEN Reject("driver_location", id, 400)
    ELSE LET i == rides[id]
             ride == [objs[i] EXCEPT !.driverLat = lat, !.driverLng = lng]
         IN /\ objs' = [objs EXCEPT ![i] = ride]
            /\ rides' = RidesSet(ride.id, i)
            /\ last' = Did("driver_location", id, 200, i, NoBody,
                           [type |-> "driver.location", status |-> "none"], Broadcast(ride.id))
            /\ Persist(Write("location", i, ride))
            /\ UNCHANGED <<now, stripeKey>>
            /\ ProcessorSame /\ RoomsSame /\ WaitSame /\ WebhookSame /\ Hears

\* ------------------------------------------------------------------ the store's rides table
\* The row an insert writes and a select reads back: the ride without its live
\* coordinate, for which the table has no column.
Row(ride) == [ride EXCEPT !.driverLat = NoCoord, !.driverLng = NoCoord]

\* The table after the store has carried out a write: an insert adds the row
\* unless its id (the primary key) is taken; an update changes the columns it
\* names in the row of that id, if there is one.
Applied(w) ==
    LET id == w.ride.id
    IN IF w.kind = "insert"
       THEN IF id \in DOMAIN dbRides THEN dbRides ELSE (id :> Row(w.ride)) @@ dbRides
       ELSE IF id \notin DOMAIN dbRides THEN dbRides
       ELSE IF w.kind = "accept"
       THEN [dbRides EXCEPT ![id].status = w.ride.status,
                            ![id].driverId = w.ride.driverId,
                            ![id].paymentIntentId = w.ride.paymentIntentId]
       ELSE IF w.kind = "status"
       THEN [dbRides EXCEPT ![id].status = w.ride.status]
       ELSE dbRides

\* The best-effort persist, were a failed write to take the ride back to
\* requested.
AfterPersistRollback(ride, ok) == IF ok THEN ride ELSE [ride EXCEPT !.status = "requested"]

\* try { await supabase... } catch { }: whatever the store answers, the ride
\* object of the closure is left as it is.
AfterPersist(ride, ok) == ride

\* The store answers a write: it has carried it out (ok) or it has failed.
StoreApply(w, ok) ==
    /\ w \in dbWrites
    /\ dbWrites' = dbWrites \ {w}
    /\ dbRides' = IF ok THEN Applied(w) ELSE dbRides
    /\ objs' = [objs EXCEPT ![w.obj] = AfterPersist(@, ok)]
    /\ UNCHANGED <<now, stripeKey, rides, last, getWait, heard>>
    /\ ProcessorSame /\ RoomsSame /\ WaitSame /\ WebhookSame

\* ------------------------------------------------------------------ GET /rides/:id
\* const ride = rides.get(rideId); if (!ride) return 404; return res.json(ride)
GetFromMemory(op, id) ==
    last' = IF Has(id) THEN Did(op, id, 200, rides[id], Obj(id), NoEvent, {})
                       ELSE Did(op, id, 404, NoObj, NoBody, NoEvent, {})

\* The handler up to the await of the store's select, or to its end when
\* there is no store.
GetBegin(id) ==
    /\ IF supabaseReady
       THEN /\ getWait' = getWait \cup {id}
            /\ last' = Did("get", id, 0, NoObj, NoBody, NoEvent, {})
       ELSE /\ GetFromMemory("get", id)
            /\ UNCHANGED getWait
    /\ UNCHANGED <<now, stripeKey, objs, rides, dbRides, dbWrites>>
    /\ ProcessorSame /\ RoomsSame /\ WaitSame /\ WebhookSame /\ Hears

\* What the select can answer: the row of the id when the table holds one, no
\* row when it does not, and at any time an error (thrown, and caught).
GetAnswers(id) == {"fail"} \cup (IF id \in DOMAIN dbRides THEN {"row"} ELSE {"none"})

\* if (data) return res.json(mapped): driver_id and payment_intent_id read
\* back as undefined when null
Mapped(row) == row

\* The handler from the answer of the select.
GetResume(id, res) ==
    /\ id \in getWait
    /\ res \in GetAnswers(id)
    /\ getWait' = getWait \ {id}
    /\ IF res = "row"
       THEN last' = Did("get_resume", id, 200, NoObj, Mapped(dbRides[id]), NoEvent, {})
       ELSE GetFromMemory("get_resume", id)
    /\ UNCHANGED <<now, stripeKey, objs, rides, dbRides, dbWrites>>
    /\ ProcessorSame /\ RoomsSame /\ WaitSame /\ WebhookSame /\ Hears

\* ------------------------------------------------------------------ WebSocket /ws?rideId=
\* addSocketToRide(rideId, socket), then the snapshot of a known ride
Connect(s, id) ==
    /\ sockRide[s] = 0
    /\ sockRide' = [sockRide EXCEPT ![s] = id]
    /\ rideRooms' = (id :> (Room(id) \cup {s})) @@ rideRooms
    /\ last' = IF Has(id)
               THEN Did("connect", id, 0, rides[id], NoBody,
                        [type |-> "ride.snapshot", status |-> Obj(id).status], {s})
               ELSE Did("connect", id, 0, NoObj, NoBody, NoEvent, {})
    /\ UNCHANGED <<now, stripeKey, objs, rides, sockBroken>>
    /\ ProcessorSame /\ WaitSame /\ NoPersist /\ WebhookSame /\ Hears

\* ws.on("close", () => rideRooms.get(rideId)?.delete(ws))
Close(s) ==
    /\ sockRide[s] # 0
    /\ sockRide' = [sockRide EXCEPT ![s] = 0]
    /\ rideRooms' = [rideRooms EXCEPT ![sockRide[s]] = @ \ {s}]
    /\ sockBroken' = sockBroken \ {s}
    /\ last' = Did("close", sockRide[s], 0, NoObj, NoBody, NoEvent, {})
    /\ UNCHANGED <<now, stripeKey, objs, rides>>
    /\ ProcessorSame /\ WaitSame /\ NoPersist /\ WebhookSame /\ Hears

\* From now on client.send throws on this connection (caught in broadcastToRide).
Break(s) ==
    /\ sockRide[s] # 0
    /\ s \notin sockBroken
    /\ sockBroken' = sockBroken \cup {s}
    /\ last' = Did("break", sockRide[s], 0, NoObj, NoBody, NoEvent, {})
    /\ UNCHANGED <<now, stripeKey, objs, rides, rideRooms, sockRide>>
    /\ ProcessorSame /\ WaitSame /\ NoPersist /\ WebhookSame /\ Hears

\* ------------------------------------------------------------------ POST /webhooks/stripe
\* What one run of the webhook handler did: the event id and signature it was
\* called with, the HTTP status it answered with (0: no answer yet), the
\* `duplicate` of its JSON body, whether isEventProcessed was called, and
\* whether an earlier delivery of the event had been acknowledged when the
\* request came in.
Answer(op, e, sig, code, duplicate, checked, after) ==
    [op |-> op, event |-> e, sig |-> sig, code |-> code, duplicate |-> duplicate,
     checked |-> checked, after |-> after]

\* The signature check, were it to let a wrong signature through.
SignatureOkLax(sig) == sig # "missing"

\* if (!sig) return 400; stripe.webhooks.constructEvent(...) throws on a
\* signature that does not verify, and the catch answers 400
SignatureOk(sig) == sig = "valid"

\* processedStripeEvents.has(id)
InMemory(e) == \E k \in 1..Len(processedStripeEvents) : processedStripeEvents[k] = e

\* The in-memory mark, were the set to make room by dropping the id that was
\* inserted last.
MemoryAddDropNewest(e) ==
    LET added == IF InMemory(e) THEN processedStripeEvents
                 ELSE Append(processedStripeEvents, e)
    IN IF Len(added) > DedupCapacity THEN SubSeq(added, 1, DedupCapacity) ELSE added

\* processedStripeEvents.add(id), then the first inserted id is deleted when
\* the set has grown beyond its capacity
MemoryAdd(e) ==
    LET added == IF InMemory(e) THEN processedStripeEvents
                 ELSE Append(processedStripeEvents, e)
    IN IF Len(added) > DedupCapacity THEN Tail(added) ELSE added

\* The handler from the answer of the store's select, or from its start when
\* there is no store: `return processedStripeEvents.has(id)`, and for an event
\* not found there the switch and markEventProcessed up to its insert.
CheckInMemory(op, w, e, after) ==
    IF InMemory(e)
    THEN /\ webhooks' = [webhooks EXCEPT ![w] = Idle]
         /\ acked' = acked \cup {e}
         /\ whLast' = Answer(op, e, "valid", 200, TRUE, TRUE, after)
         /\ UNCHANGED <<stripeEvents, processedStripeEvents, handled>>
    ELSE /\ handled' = [handled EXCEPT ![e] = @ + 1]
         /\ IF supabaseReady
            THEN /\ webhooks' = [webhooks EXCEPT ![w] =
                                     [pc |-> "insert", event |-> e, after |-> after]]
                 /\ whLast' = Answer(op, e, "valid", 0, FALSE, TRUE, after)
                 /\ UNCHANGED <<stripeEvents, processedStripeEvents, acked>>
            ELSE /\ processedStripeEvents' = MemoryAdd(e)
                 /\ webhooks' = [webhooks EXCEPT ![w] = Idle]
                 /\ acked' = acked \cup {e}
                 /\ whLast' = Answer(op, e, "valid", 200, FALSE, TRUE, after)
                 /\ UNCHANGED stripeEvents

\* The handler up to the await of the store's select in isEventProcessed, or,
\* without a store (no await on anything pending), to its end.
WebhookBegin(w, e, sig) ==
    /\ webhooks[w].pc = "idle"
    /\ delivered' = delivered + 1
    /\ IF ~SignatureOk(sig)
       THEN /\ whLast' = Answer("webhook", e, sig, 400, FALSE, FALSE, e \in acked)
            /\ UNCHANGED <<stripeEvents, processedStripeEvents, webhooks, handled, acked>>
       ELSE IF supabaseReady
       THEN /\ webhooks' = [webhooks EXCEPT ![w] =
                                [pc |-> "select", event |-> e, after |-> e \in acked]]
            /\ whLast' = Answer("webhook", e, sig, 0, FALSE, TRUE, e \in acked)
            /\ UNCHANGED <<stripeEvents, processedStripeEvents, handled, acked>>
       ELSE CheckInMemory("webhook", w, e, e \in acked)
    /\ UNCHANGED supabaseReady
    /\ RidesSame

\* What the store's select can answer: the row when the table holds it, no
\* row when it does not, and at any time a failure (a throw, or an error with
\* data null), after which the in-memory set is asked.
SelectAnswers(e) ==
    {"fail"} \cup (IF e \in stripeEvents THEN {"row"} ELSE {"none"})

\* isEventProcessed from the answer of the select.
SelectResume(w, res) ==
    /\ webhooks[w].pc = "select"
    /\ res \in SelectAnswers(webhooks[w].event)
    /\ LET e == webhooks[w].event
           after == webhooks[w].after
       IN IF res = "row"
          THEN /\ webhooks' = [webhooks EXCEPT ![w] = Idle]
               /\ acked' = acked \cup {e}
               /\ whLast' = Answer("select_resume", e, "valid", 200, TRUE, TRUE, after)
               /\ UNCHANGED <<stripeEvents, processedStripeEvents, handled>>
          ELSE CheckInMemory("select_resume", w, e, after)
    /\ UNCHANGED <<supabaseReady, delivered>>
    /\ RidesSame

\* markEventProcessed from the answer of the insert: the row is written
\* ("ok"), or the call resolves with an error and the function returns all the
\* same ("error"), or it throws and the id goes to the in-memory set
\* ("throw"); then the handler acknowledges.
InsertResume(w, res) ==
    /\ webhooks[w].pc = "insert"
    /\ LET e == webhooks[w].event
       IN /\ stripeEvents' = IF res = "ok" THEN stripeEvents \cup {e} ELSE stripeEvents
          /\ processedStripeEvents' = IF res = "throw" THEN MemoryAdd(e)
                                      ELSE processedStripeEvents
          /\ webhooks' = [webhooks EXCEPT ![w] = Idle]
          /\ acked' = acked \cup {e}
          /\ whLast' = Answer("insert_resume", e, "valid", 200, FALSE, TRUE,
                              webhooks[w].after)
    /\ UNCHANGED <<supabaseReady, handled, delivered>>
    /\ RidesSame

\* ------------------------------------------------------------------ POST /rides/:id/refund
HasRefund(rf) == rf \in DOMAIN refunds
Refund(rf) == rfObjs[refunds[rf]]

\* const id = `rf_${Date.now()}`
NewRefundId == now

\* const rr = { id, rideId: ride.id, amountUsd, reason, status: "requested" }
\* amountUsd and reason are copied from the body; they are read again only to
\* compute the amount handed to the processor.
NewRefund(ride) ==
    [id |-> NewRefundId, rideId |-> ride.id, status |-> "requested",
     refundId |-> NoRefundRef]

\* A refund handler that answers with an error before touching anything.
RefundReject(op, id, code) ==
    /\ rfLast' = RfDid(op, id, code, NoObj, NoRefund)
    /\ UNCHANGED <<rfObjs, refunds, approveWait, refundCalls>>

\* The whole handler: without a store its persist returns at once.
RefundRequest(id) ==
    /\ IF ~Has(id)
       THEN RefundReject("refund", id, 404)
       ELSE /\ rfObjs' = Append(rfObjs, NewRefund(Obj(id)))
            /\ refunds' = (NewRefundId :> Len(rfObjs) + 1) @@ refunds
            /\ refundCalls' = Append(refundCalls, 0)
            /\ rfLast' = RfDid("refund", NewRefundId, 201, Len(rfObjs) + 1,
                               NewRefund(Obj(id)))
            /\ UNCHANGED approveWait
    /\ RefundsOnly

\* ------------------------------------------------------------------ POST /admin/refunds/:id/approve
\* if (!ride || !ride.paymentIntentId) return 400 NO_PAYMENT
NoPayment(rr) == ~Has(rr.rideId) \/ Obj(rr.rideId).paymentIntentId = NoPi

\* The handler up to `await stripe.refunds.create(...)`.  The client is built
\* whether or not a key is configured, so the call is always made.
ApproveBegin(rf) ==
    /\ IF ~HasRefund(rf) THEN RefundReject("approve", rf, 404)
       ELSE IF NoPayment(Refund(rf)) THEN RefundReject("approve", rf, 400)
       ELSE /\ approveWait' = approveWait (+) SetToBag({refunds[rf]})
            /\ refundCalls' = [refundCalls EXCEPT ![refunds[rf]] = @ + 1]
            /\ rfLast' = RfDid("approve", rf, 0, refunds[rf], NoRefund)
            /\ UNCHANGED <<rfObjs, refunds>>
    /\ RefundsOnly

\* The stripe.refunds.create calls issued so far, over all records.
RefundCallsIssued ==
    LET upTo[k \in 0..Len(refundCalls)] ==
            IF k = 0 THEN 0 ELSE upTo[k - 1] + refundCalls[k]
    IN upTo[Len(refundCalls)]

\* refund.id: the processor names every refund it creates anew.
CreatedRefund == RefundCallsIssued - BagCardinality(approveWait) + 1

\* rr.status = "refunded"; rr.refundId = refund.id  -- skipped when the call throws
AfterRefund(rr, ok, ref) ==
    IF ok THEN [rr EXCEPT !.status = "refunded", !.refundId = ref] ELSE rr

\* The handler from the processor's answer: on success the record is marked
\* and registered again under its id and answered with 200; the catch answers
\* 500 STRIPE_REFUND_FAILED.
ApproveResume(j, ok) ==
    /\ BagIn(j, approveWait)
    /\ approveWait' = approveWait (-) SetToBag({j})
    /\ rfObjs' = [rfObjs EXCEPT ![j] = AfterRefund(@, ok, CreatedRefund)]
    /\ refunds' = IF ok THEN (rfObjs[j].id :> j) @@ refunds ELSE refunds
    /\ rfLast' = RfDid("approve_resume", rfObjs[j].id, IF ok THEN 200 ELSE 500, j,
                       IF ok THEN AfterRefund(rfObjs[j], ok, CreatedRefund) ELSE NoRefund)
    /\ UNCHANGED refundCalls
    /\ RefundsOnly

\* ------------------------------------------------------------------ POST /admin/refunds/:id/reject
\* rr.status = "rejected"; refunds.set(rr.id, rr), whatever the status was
RejectRefund(rf) ==
    /\ IF ~HasRefund(rf) THEN RefundReject("reject", rf, 404)
       ELSE /\ rfObjs' = [rfObjs EXCEPT ![refunds[rf]].status = "rejected"]
            /\ refunds' = (Refund(rf).id :> refunds[rf]) @@ refunds
            /\ rfLast' = RfDid("reject", rf, 200, refunds[rf],
                               [Refund(rf) EXCEPT !.status = "rejected"])
            /\ UNCHANGED <<approveWait, refundCalls>>
    /\ RefundsOnly

\* ------------------------------------------------------------------ specification
\* The ride registry and the payment calls: the five ride routes with the
\* processor's answers arriving at any later time.  The clock is read by
\* POST /rides alone, so it stops once MaxObjs rides have been created.
Next ==
    \/ Len(objs) < MaxObjs /\ Tick
    \/ \E valid \in BOOLEAN : (valid => Len(objs) < MaxObjs) /\ Request(valid, Trip0)
    \/ \E id \in RideIds, d \in DriverBodies : AcceptBegin(id, d)
    \/ \E i \in acceptWait, ok \in BOOLEAN : AcceptResume(i, ok)
    \/ \E id \in RideIds : Start(id)
    \/ \E id \in RideIds : CompleteBegin(id)
    \/ \E i \in captureWait, ok \in BOOLEAN : CompleteResume(i, ok)
    \/ \E id \in RideIds : Cancel(id)

Spec == Init /\ [][Next]_vars

\* What happens without the payment processor: the clock and the calls that
\* come in, each run to its await or its end.
ServerSteps ==
    \/ Len(objs) < MaxObjs /\ Tick
    \/ \E valid \in BOOLEAN : (valid => Len(objs) < MaxObjs) /\ Request(valid, Trip0)
    \/ \E id \in RideIds, d \in DriverBodies : AcceptBegin(id, d)
    \/ \E id \in RideIds : Start(id)
    \/ \E id \in RideIds : CompleteBegin(id)
    \/ \E id \in RideIds : Cancel(id)

\* The same routes where the server never stops taking calls and running what
\* it can run, while nothing makes the processor answer: a handler that awaits
\* paymentIntents.create or paymentIntents.capture resumes when that promise
\* settles, and the code sets no timeout on it.
SpecLive == Init /\ [][Next]_vars /\ WF_vars(ServerSteps)

\* Two request bodies that differ in pickup, dropoff and ride class, and so in
\* quote.
FrameTrips == {Trip0, [metres |-> 0, rideType |-> "xl"]}

\* The ride routes where requests carry different trips.
NextFrame ==
    \/ Len(objs) < MaxObjs /\ Tick
    \/ \E valid \in BOOLEAN, trip \in FrameTrips :
          (valid => Len(objs) < MaxObjs) /\ Request(valid, trip)
    \/ \E id \in RideIds, d \in DriverBodies : AcceptBegin(id, d)
    \/ \E i \in acceptWait, ok \in BOOLEAN : AcceptResume(i, ok)
    \/ \E id \in RideIds : Start(id)
    \/ \E id \in RideIds : CompleteBegin(id)
    \/ \E i \in captureWait, ok \in BOOLEAN : CompleteResume(i, ok)
    \/ \E id \in RideIds : Cancel(id)

SpecFrame == Init /\ [][NextFrame]_vars

\* The ride routes with connections that subscribe to a ride and leave.
NextOrder ==
    \/ Len(objs) < MaxObjs /\ Tick
    \/ Len(objs) < MaxObjs /\ Request(TRUE, Trip0)
    \/ \E id \in DOMAIN rides : AcceptBegin(id, "d1")
    \/ \E i \in acceptWait, ok \in BOOLEAN : AcceptResume(i, ok)
    \/ \E id \in DOMAIN rides : Start(id)
    \/ \E id \in DOMAIN rides : CompleteBegin(id)
    \/ \E i \in captureWait, ok \in BOOLEAN : CompleteResume(i, ok)
    \/ \E id \in DOMAIN rides : Cancel(id)
    \/ \E s \in Sockets, id \in RideIds : Connect(s, id)
    \/ \E s \in Sockets : Close(s)

SpecOrder == Init /\ [][NextOrder]_vars

\* The live location of a driver: rides are requested, cancelled and given
\* driver locations at and just beyond the ends of both ranges.
NextLoc ==
    \/ Len(objs) < MaxRoomRides /\ Tick
    \/ \E valid \in BOOLEAN : (valid => Len(objs) < MaxRoomRides) /\ Request(valid, Trip0)
    \/ \E id \in RideIds : Cancel(id)
    \/ \E id \in RideIds, lat \in Lats, lng \in Lngs : DriverLocation(id, lat, lng)

SpecLoc == Init /\ [][NextLoc]_vars

\* The fare: rides are requested and quotes asked for over every trip.
NextFare ==
    \/ Len(objs) < MaxRoomRides /\ Tick
    \/ \E valid \in BOOLEAN, trip \in Trips :
          (valid => Len(objs) < MaxRoomRides) /\ Request(valid, trip)
    \/ \E valid \in BOOLEAN, trip \in Trips : Quote(valid, trip)

SpecFare == Init /\ [][NextFare]_vars

\* The store: the ride routes with and without a store, the store answering
\* each write at any later time, in any order, or never.  A call that is
\* answered with an error returns before any persist, so only the calls that
\* succeed are taken, and of the driver locations the first one of a
\* ride in progress.
InitStore == InitRides /\ NoWebhooks /\ NoRefunds /\ supabaseReady \in BOOLEAN

\* Whether the store can take one more call.
StoreFree == Cardinality(dbWrites) + Cardinality(getWait) < MaxStoreCalls

NextStore ==
    \/ Len(objs) < MaxRoomRides /\ Tick
    \/ Len(objs) < MaxRoomRides /\ StoreFree /\ Request(TRUE, Trip0)
    \/ \E id \in DOMAIN rides :
          AcceptAllowed(Obj(id)) /\ StoreFree /\ AcceptBegin(id, "d1")
    \/ \E i \in acceptWait, ok \in BOOLEAN : StoreFree /\ AcceptResume(i, ok)
    \/ \E id \in DOMAIN rides : StartAllowed(Obj(id)) /\ StoreFree /\ Start(id)
    \/ \E id \in DOMAIN rides :
          CompleteAllowed(Obj(id)) /\ StoreFree /\ CompleteBegin(id)
    \/ \E i \in captureWait, ok \in BOOLEAN : CompleteResume(i, ok)
    \/ \E id \in DOMAIN rides : CancelAllowed(Obj(id)) /\ StoreFree /\ Cancel(id)
    \/ \E id \in DOMAIN rides :
          /\ Obj(id).status = "in_progress" /\ Obj(id).driverLat = NoCoord
          /\ StoreFree /\ DriverLocation(id, 90, -180)
    \/ \E w \in dbWrites, ok \in BOOLEAN : StoreApply(w, ok)

\* The same, with rides being read.
NextRead ==
    \/ NextStore
    \/ \E id \in RideIds : StoreFree /\ GetBegin(id)
    \/ \E id \in RideIds, res \in {"row", "none", "fail"} : GetResume(id, res)

SpecRead == InitStore /\ [][NextRead]_vars

SpecStore == InitStore /\ [][NextStore]_vars

\* The ride rooms: sockets subscribe, close and start to fail while rides are
\* requested, cancelled and given a driver location (one valid coordinate: the
\* rooms do not depend on which).
NextRooms ==
    \/ Len(objs) < MaxRoomRides /\ Tick
    \/ \E valid \in BOOLEAN : (valid => Len(objs) < MaxRoomRides) /\ Request(valid, Trip0)
    \/ \E id \in RideIds : Cancel(id)
    \/ \E id \in RideIds : DriverLocation(id, 90, -180)
    \/ \E s \in Sockets, id \in RideIds : Connect(s, id)
    \/ \E s \in Sockets : Close(s)
    \/ \E s \in Sockets : Break(s)

SpecRooms == Init /\ [][NextRooms]_vars

\* The webhook route, with and without a store: up to two deliveries in
\* flight at once, the store answering at any later time.
InitWebhook == InitRides /\ NoWebhooks /\ NoRefunds /\ supabaseReady \in BOOLEAN

NextWebhook ==
    \/ \E w \in Deliveries, e \in Events, sig \in Signatures :
          delivered < MaxDeliveries /\ WebhookBegin(w, e, sig)
    \/ \E w \in Deliveries, res \in {"row", "none", "fail"} : SelectResume(w, res)
    \/ \E w \in Deliveries, res \in {"ok", "error", "throw"} : InsertResume(w, res)

SpecWebhook == InitWebhook /\ [][NextWebhook]_vars

\* Refunds: one ride, requested and accepted with or without an authorization,
\* and the refund routes called on it, the processor answering at any later
\* time.
NextRefund ==
    \/ (Len(objs) < MaxRoomRides \/ Len(rfObjs) < MaxRefunds) /\ Tick
    \/ Len(objs) < MaxRoomRides /\ Request(TRUE, Trip0)
    \/ \E id \in DOMAIN rides : AcceptBegin(id, "d1")
    \/ \E i \in acceptWait, ok \in BOOLEAN : AcceptResume(i, ok)
    \/ \E id \in RideIds : Len(rfObjs) < MaxRefunds /\ RefundRequest(id)
    \/ \E rf \in RefundIds : RefundCallsIssued < MaxRefundCalls /\ ApproveBegin(rf)
    \/ \E j \in 1..Len(rfObjs), ok \in BOOLEAN : ApproveResume(j, ok)
    \/ \E rf \in RefundIds : RejectRefund(rf)

SpecRefund == Init /\ [][NextRefund]_vars

\* ------------------------------------------------------------------ properties
\* Status of the ride registered under id, before and after a step.
StatusOf(id) == Obj(id).status
StatusOfNext(id) == objs'[rides'[id]].status

\* C1: an accept call with a non-empty driver id on an existing ride succeeds
\* (the status becomes accepted and the driver id is bound; the answer, at once
\* or after the await, is 200) if and only if the ride's status at the time of
\* the call is requested; in any other status it answers 409 INVALID_STATE and
\* leaves the ride as it was.
C1_AcceptIffRequested ==
    [][/\ \A id \in RideIds, d \in DriverBodies \ {""} :
            (Has(id) /\ AcceptBegin(id, d)) =>
                IF StatusOf(id) = "requested"
                THEN /\ last'.code \in {0, 200}
                     /\ objs'[rides[id]].status = "accepted"
                     /\ objs'[rides[id]].driverId = d
                ELSE /\ last'.code = 409
                     /\ objs' = objs
                     /\ rides' = rides
       /\ last'.op = "accept_resume" => last'.code = 200]_vars

\* A second accept on a ride that driver d1 has accepted was answered 409.
C1_Witness ==
    /\ last.op = "accept" /\ last.code = 409
    /\ Has(last.id)
    /\ StatusOf(last.id) = "accepted" /\ Obj(last.id).driverId = "d1"

\* The five edges of the lifecycle.
Edges == {<<"requested", "accepted">>, <<"accepted", "in_progress">>,
          <<"in_progress", "completed">>, <<"accepted", "completed">>,
          <<"requested", "cancelled">>}

\* C2: every change of the status stored under a ride id follows one of the five
\* edges requested->accepted, accepted->in_progress, in_progress->completed,
\* accepted->completed, requested->cancelled.
C2_StatusFollowsEdges ==
    [][\A id \in RideIds :
         (Has(id) /\ id \in DOMAIN rides') =>
             \/ StatusOfNext(id) = StatusOf(id)
             \/ <<StatusOf(id), StatusOfNext(id)>> \in Edges]_vars

\* C3: every ride created stays in the registry under its own id: no request
\* overwrites the record of an earlier ride.
C3_RidesStayRegistered ==
    \A i \in 1..Len(objs) : Has(objs[i].id) /\ rides[objs[i].id] = i

\* C4: at most one create-authorization call is ever issued for a ride.
C4_OneCreateCallPerRide ==
    \A id \in RideIds : createCalls[id] <= 1

\* C5: the payment authorization reference of a ride is write-once: once set
\* it stays set, with the same value.
C5_ReferenceWriteOnce ==
    [][\A id \in RideIds :
         (Has(id) /\ Obj(id).paymentIntentId # NoPi) =>
             /\ id \in DOMAIN rides'
             /\ objs'[rides'[id]].paymentIntentId = Obj(id).paymentIntentId]_vars

\* C6: at most one capture call is ever issued for an authorization.
C6_OneCapturePerAuthorization ==
    \A p \in PiRefs : captureCalls[p] <= 1

\* C7: a ride that has an authorization and has reached completed has had a
\* capture call issued for that authorization (stated of the states in which
\* no handler is awaiting, where no later capture can come).
C7_CompletedIsCaptured ==
    (acceptWait = {} /\ captureWait = {}) =>
        \A i \in 1..Len(objs) :
            (objs[i].status = "completed" /\ objs[i].paymentIntentId # NoPi) =>
                captureCalls[objs[i].paymentIntentId] >= 1

\* What the two handlers answer when the processor call threw: `statuses` is
\* the set of statuses the accept may answer with.
ProcessorFailureTolerated(statuses) ==
    /\ \A i \in acceptWait :
          AcceptResume(i, FALSE) =>
              /\ last'.code = 200
              /\ last'.body.status \in statuses
              /\ last'.body.driverId = objs[i].driverId
              /\ last'.body.driverId # NoDriver
              /\ last'.body.paymentIntentId = NoPi
    /\ \A i \in captureWait :
          CompleteResume(i, FALSE) =>
              /\ last'.code = 200
              /\ last'.body.status = "completed"
              /\ objs'[i].status = "completed"

C9_StartOnlyFromAccepted ==
    [][\A id \in RideIds :
         (last'.op = "start" /\ last'.id = id) =>
             IF ~Has(id) THEN last'.code = 404
             ELSE IF StatusOf(id) = "accepted"
             THEN /\ last'.code = 200
                  /\ StatusOfNext(id) = "in_progress"
             ELSE /\ last'.code = 409
                  /\ objs' = objs /\ rides' = rides
                  /\ last'.event = NoEvent /\ last'.sentTo = {}]_vars

\* A start on a completed ride was answered 409.
C9_Witness ==
    /\ last.op = "start" /\ last.code = 409
    /\ Has(last.id) /\ StatusOf(last.id) = "completed"

\* C10: complete sets completed (and answers 200, at once or after the await)
\* exactly when the ride's status is in_progress or accepted; from requested,
\* completed or cancelled it answers 409, changes no ride record, issues no
\* capture call and broadcasts nothing.
C10_CompleteOnlyFromActive ==
    [][/\ \A id \in RideIds :
            (last'.op = "complete" /\ last'.id = id /\ Has(id)) =>
                IF StatusOf(id) \in {"in_progress", "accepted"}
                THEN /\ last'.code \in {0, 200}
                     /\ StatusOfNext(id) = "completed"
                ELSE /\ last'.code = 409
                     /\ objs' = objs /\ rides' = rides
                     /\ captureCalls' = captureCalls /\ captureWait' = captureWait
                     /\ last'.event = NoEvent /\ last'.sentTo = {}
       /\ last'.op = "complete_resume" => last'.code = 200]_vars

\* A complete on a cancelled ride was answered 409.
C10_Witness ==
    /\ last.op = "complete" /\ last.code = 409
    /\ Has(last.id) /\ StatusOf(last.id) = "cancelled"

\* C11: cancel answers 200 and sets cancelled exactly when the ride's status is
\* requested; from any other status (accepted while the accept still awaits
\* the processor included) it answers 409 and changes no ride record.
C11_CancelOnlyFromRequested ==
    [][\A id \in RideIds :
         (last'.op = "cancel" /\ last'.id = id /\ Has(id)) =>
             IF StatusOf(id) = "requested"
             THEN /\ last'.code = 200
                  /\ StatusOfNext(id) = "cancelled"
             ELSE /\ last'.code = 409
                  /\ objs' = objs /\ rides' = rides]_vars

\* A cancel was answered 409 on a ride whose accept still awaits the processor.
C11_Witness ==
    /\ last.op = "cancel" /\ last.code = 409
    /\ Has(last.id) /\ StatusOf(last.id) = "accepted"
    /\ rides[last.id] \in acceptWait

\* C12: a ride whose status is cancelled has no payment authorization
\* reference, and no create-authorization call was ever issued for it.
C12_CancelledHasNoAuthorization ==
    \A id \in RideIds :
        (Has(id) /\ StatusOf(id) = "cancelled") =>
            /\ Obj(id).paymentIntentId = NoPi
            /\ createCalls[id] = 0

\* C13: of two overlapping calls on one ride that need the same source status
\* exactly one passes the status check: no two accept calls on one ride id are
\* both past the check and awaiting the processor.
C13_OneOverlappingAcceptPasses ==
    \A i \in acceptWait, j \in acceptWait : objs[i].id = objs[j].id => i = j

\* C14: a driver-location call on an existing ride with lat in [-90, 90] and
\* lng in [-180, 180], ends included, answers 200, writes the coordinate and
\* broadcasts driver.location; with lat or lng outside it answers 400
\* VALIDATION_ERROR, changes no ride record and broadcasts nothing.
C14_LocationValidated ==
    [][\A id \in RideIds, lat \in Lats, lng \in Lngs :
         (Has(id) /\ DriverLocation(id, lat, lng)) =>
             IF -90 <= lat /\ lat <= 90 /\ -180 <= lng /\ lng <= 180
             THEN /\ last'.code = 200
                  /\ objs'[rides[id]].driverLat = lat
                  /\ objs'[rides[id]].driverLng = lng
                  /\ last'.event.type = "driver.location"
             ELSE /\ last'.code = 400
                  /\ objs' = objs /\ rides' = rides
                  /\ last'.event = NoEvent]_vars

\* A call out of range was answered 400 on a ride that keeps the coordinate
\* (90, -180), at the ends of both ranges, that an earlier call wrote.
C14_Witness ==
    /\ last.op = "driver_location" /\ last.code = 400
    /\ Has(last.id)
    /\ Obj(last.id).driverLat = 90 /\ Obj(last.id).driverLng = -180

\* C15: a driver-location call on a ride whose status is completed or
\* cancelled is not answered 200: it writes no coordinate and broadcasts no
\* driver.location event.  (The call leaves the status as it was, so the
\* status after the call is the status it found.)
C15_NoLocationOnTerminalRide ==
    (/\ last.op = "driver_location"
     /\ Has(last.id)
     /\ StatusOf(last.id) \in {"completed", "cancelled"})
        => (last.code # 200 /\ last.event = NoEvent)

\* C16: an event broadcast for a ride is sent to exactly the connections
\* subscribed to that ride id at the time of the broadcast: to each of them,
\* to none subscribed to another id, to none that has closed.
C16_FanOutToSubscribers ==
    [][last'.event.type \in {"ride.updated", "driver.location"} =>
         last'.sentTo = {s \in Sockets : sockRide[s] = last'.id}]_vars

\* A ride event went to the one subscriber of its ride while the other
\* connection was subscribed to a different ride id.
C16_Witness ==
    /\ last.event.type = "ride.updated"
    /\ \E s \in Sockets, t \in Sockets :
          /\ sockRide[s] = last.id
          /\ sockRide[t] \notin {0, last.id}
          /\ last.sentTo = {s}

\* C17: when send throws on a member of the room, the broadcast still calls
\* send on every other member, and the route that broadcast answers as a
\* success (or goes on to its await) with its status written to the ride.
C17_SendFailureIsolated ==
    [][(/\ last'.event.type \in {"ride.updated", "driver.location"}
        /\ Room(last'.id) \cap sockBroken # {}) =>
           /\ Room(last'.id) \ sockBroken \subseteq last'.sentTo
           /\ last'.code \in {0, 200, 201}
           /\ last'.event.type = "ride.updated" =>
                  objs'[last'.obj].status = last'.event.status]_vars

\* A ride route answered as a success after a broadcast to a room with one
\* member whose send throws and one whose send works.
C17_Witness ==
    /\ last.event.type = "ride.updated"
    /\ last.code \in {200, 201}
    /\ last.sentTo \cap sockBroken # {}
    /\ last.sentTo \ sockBroken # {}

\* C18: a delivery of an event id that came in after an earlier delivery of
\* the same id was acknowledged does not pass the already-processed check: it
\* is not processed again and is acknowledged with duplicate: true.
C18_SecondDeliveryIsDuplicate ==
    /\ \A w \in Deliveries : webhooks[w].pc = "insert" => ~webhooks[w].after
    /\ (whLast.code = 200 /\ whLast.after) => whLast.duplicate

\* C19: of two deliveries of one event id in flight at once, at most one
\* passes the already-processed check as new.
C19_OneConcurrentDeliveryPasses ==
    \A w1 \in Deliveries, w2 \in Deliveries :
        (/\ webhooks[w1].pc = "insert"
         /\ webhooks[w2].pc = "insert"
         /\ webhooks[w1].event = webhooks[w2].event) => w1 = w2

\* C20: a delivery whose signature is missing or does not verify is answered
\* 400 without isEventProcessed being called, and leaves the stripe_events
\* table, the in-memory set and every delivery in flight as they were.
C20_BadSignatureRejected ==
    [][\A w \in Deliveries, e \in Events, sig \in Signatures \ {"valid"} :
         WebhookBegin(w, e, sig) =>
             /\ whLast'.code = 400
             /\ ~whLast'.checked
             /\ UNCHANGED <<stripeEvents, processedStripeEvents, webhooks, handled>>]_vars

\* A delivery with a signature that does not verify was answered 400 for an
\* event id that an earlier delivery had recorded, while another delivery was
\* in flight.
C20_Witness ==
    /\ whLast.sig = "invalid" /\ whLast.code = 400
    /\ (whLast.event \in stripeEvents \/ InMemory(whLast.event))
    /\ \E w \in Deliveries : webhooks[w].pc # "idle"

\* The fare as the specification words it, in cents: max(5, 2.5 + km * rate)
\* rounded to the cent, with rate 1.2 / 1.8 / 2.0 per km.
FareInWords(trip) ==
    LET rate == CASE trip.rideType = "standard" -> 12
                  [] trip.rideType = "premium" -> 18
                  [] trip.rideType = "xl" -> 20
    IN RoundCents(Max(50000, 25000 + trip.metres * rate))

\* C24: the quote attached to a ride at creation and the standalone estimate
\* are, for the same pickup, dropoff and class, the same value, namely
\* max(5, 2.5 + km * rate) rounded to the cent, and it is never below 5.00.
C24_FareIsOneFunction ==
    /\ \A i \in 1..Len(objs) :
          /\ objs[i].quoteUsd = QuoteEstimate(objs[i].trip)
          /\ objs[i].quoteUsd = FareInWords(objs[i].trip)
          /\ objs[i].quoteUsd >= 500
    /\ (last.op = "quote" /\ last.code = 200) =>
          /\ last.body.quoteUsd = RideQuote(last.body.trip)
          /\ last.body.quoteUsd = FareInWords(last.body.trip)
          /\ last.body.quoteUsd >= 500

\* A standalone quote for the trip of a ride answered the ride's quote, above
\* the floor of 5.00 and at a rate other than the standard one.
C24_Witness ==
    /\ last.op = "quote" /\ last.code = 200
    /\ last.body.quoteUsd > 500
    /\ last.body.trip.rideType = "xl"
    /\ \E i \in 1..Len(objs) :
          objs[i].trip = last.body.trip /\ objs[i].quoteUsd = last.body.quoteUsd

\* The ride routes that answer in the run that begins them.
AnswersAtOnce == {"request", "start", "cancel", "driver_location"}

\* A step that takes a write out of dbWrites is the store's answer to it.
\* C21: the store's answer to a persist, success or failure, leaves every ride
\* record, the registry, the pending handlers and the last response as they
\* were; and no ride route waits for the store: request, start, cancel and
\* driver location answer in the run that begins them, accept and complete
\* there or at the processor's answer, with the store present as without it.
C21_StoreNeverReachesRide ==
    [][/\ (dbWrites' # dbWrites /\ dbWrites' \subseteq dbWrites) =>
            UNCHANGED <<objs, rides, last, acceptWait, captureWait, rideRooms>>
       /\ (last' # last /\ last'.op \in AnswersAtOnce) => last'.code \in {200, 201}
       /\ (last' # last /\ last'.op = "accept" /\ last'.code = 0) =>
              last'.obj \in acceptWait'
       /\ (last' # last /\ last'.op = "complete" /\ last'.code = 0) =>
              last'.obj \in captureWait']_vars

\* A cancel was answered 200 and the ride is cancelled in memory although the
\* store, which has answered every write, still holds the row as requested:
\* the update failed.
C21_Witness ==
    /\ supabaseReady /\ dbWrites = {}
    /\ last.op = "cancel" /\ last.code = 200
    /\ Obj(last.id).status = "cancelled"
    /\ last.id \in DOMAIN dbRides
    /\ dbRides[last.id].status = "requested"

\* C22: GET /rides/:id on a known ride answers the ride as the in-memory
\* registry holds it at the time of the answer, so never with a status earlier
\* than one a transition has set.
C22_ReadsFromMemory ==
    (last.op \in {"get", "get_resume"} /\ last.code = 200 /\ Has(last.id)) =>
        last.body.status = StatusOf(last.id)

\* C23: every accept and every complete call that was begun returns its
\* response: a handler awaiting the processor does not await for ever.
C23_CallsReturn ==
    \A i \in 1..MaxObjs :
        /\ (i \in acceptWait) ~> (i \notin acceptWait)
        /\ (i \in captureWait) ~> (i \notin captureWait)

\* The status each route writes before it broadcasts ride.updated.
StatusSetBy(op) ==
    CASE op = "request" -> "requested"
      [] op \in {"accept", "accept_resume"} -> "accepted"
      [] op = "start" -> "in_progress"
      [] op \in {"complete", "complete_resume"} -> "completed"
      [] op = "cancel" -> "cancelled"
      [] OTHER -> "none"

\* C25: a transition broadcasts ride.updated in one piece with its write: the
\* event carries the status the transition set, and a ride whose accept has
\* written accepted and has yet to broadcast still has that status.
C25_EventWithTheWrite ==
    /\ last.event.type = "ride.updated" => last.event.status = StatusSetBy(last.op)
    /\ \A i \in acceptWait : objs[i].status = "accepted"

\* An accept call with a missing or empty driver id, seen as the step it makes
\* on an existing ride (every accept step records the id it was called with in
\* last.id), and what the ride and the processor are left with.
EmptyAccept(id) == Has(id) /\ AcceptBegin(id, "")
NothingDone ==
    /\ objs' = objs /\ rides' = rides
    /\ createCalls' = createCalls
    /\ last'.event = NoEvent

\* C26 as stated: accept with a missing or empty driver id on an existing ride
\* answers 400 VALIDATION_ERROR and changes nothing; accept on an unknown id
\* answers 404 whatever the body.
C26_EmptyDriverIsValidationError ==
    [][last'.op = "accept" =>
         /\ EmptyAccept(last'.id) => (last'.code = 400 /\ NothingDone)
         /\ \A d \in DriverBodies :
               (~Has(last'.id) /\ AcceptBegin(last'.id, d)) => last'.code = 404]_vars

\* C26 as amended: the same on a ride whose status is requested; on a ride in
\* any other status the call answers 409 INVALID_STATE, the status being
\* checked before the body, and changes nothing either.
C26_EmptyDriverAfterStateCheck ==
    [][last'.op = "accept" =>
         /\ EmptyAccept(last'.id) =>
               /\ last'.code = (IF StatusOf(last'.id) = "requested" THEN 400 ELSE 409)
               /\ NothingDone
         /\ \A d \in DriverBodies :
               (~Has(last'.id) /\ AcceptBegin(last'.id, d)) =>
                   (last'.code = 404 /\ NothingDone)]_vars

\* An accept with an empty driver id was answered 400 on a ride that is still
\* requested, with no driver and no authorization.
C26_Witness ==
    /\ last.op = "accept" /\ last.code = 400
    /\ Has(last.id)
    /\ Obj(last.id).status = "requested"
    /\ Obj(last.id).driverId = NoDriver
    /\ Obj(last.id).paymentIntentId = NoPi

\* ---------------------------------------------------------------------------
\* The ride registered under id r after a step, and r's room after it.
ObjNext(r) == objs'[rides'[r]]
RoomNext(r) == IF r \in DOMAIN rideRooms' THEN rideRooms'[r] ELSE {}

\* The record with its status, driver id and authorization reference masked.
Fixed(ride) ==
    [ride EXCEPT !.status = "requested", !.driverId = NoDriver, !.paymentIntentId = NoPi]

\* The record with its status masked.
FixedButStatus(ride) == [ride EXCEPT !.status = "requested"]

\* C27: a call addressed to one ride changes no other ride's record and no other
\* ride's room; on the ride itself pickup, dropoff, ride class and quote stay as
\* they were at creation: accept changes only status, driver id and
\* authorization reference, and start, complete and cancel only the status.
C27_Frame ==
    [][\A r \in DOMAIN rides :
         /\ last'.id # r => (ObjNext(r) = Obj(r) /\ RoomNext(r) = Room(r))
         /\ ObjNext(r).trip = Obj(r).trip
         /\ ObjNext(r).quoteUsd = Obj(r).quoteUsd
         /\ last'.op \in {"accept", "accept_resume"} => Fixed(ObjNext(r)) = Fixed(Obj(r))
         /\ last'.op \in {"start", "complete", "complete_resume", "cancel"} =>
               FixedButStatus(ObjNext(r)) = FixedButStatus(Obj(r))]_vars

\* ---------------------------------------------------------------------------
\* processedStripeEvents.has(id) after a step.
InMemoryNext(e) ==
    \E k \in 1..Len(processedStripeEvents') : processedStripeEvents'[k] = e

\* C28: when markEventProcessed has ended for a delivery without the store
\* holding the event's row, the id is in the in-memory set and the delivery is
\* acknowledged with 200; and marking an id the set already holds leaves the
\* set as it was.
C28_FailedMarkFallsBack ==
    [][\A w \in Deliveries :
         (webhooks[w].pc = "insert" /\ webhooks'[w].pc = "idle") =>
            LET e == webhooks[w].event
            IN /\ whLast'.code = 200
               /\ e \notin stripeEvents' => InMemoryNext(e)
               /\ InMemory(e) => processedStripeEvents' = processedStripeEvents]_vars

\* A step in which markEventProcessed reaches processedStripeEvents.add: a
\* delivery handled without a store and not found in the set, or a delivery
\* whose insert threw.
MarksInMemory ==
    \/ /\ ~supabaseReady
       /\ delivered' = delivered + 1
       /\ whLast'.code = 200 /\ ~whLast'.duplicate
    \/ \E w \in Deliveries : InsertResume(w, "throw")

C30_FailedApproveLeavesNoReference ==
    [][/\ \A j \in 1..Len(rfObjs') :
             rfObjs'[j].status = "refunded" => rfObjs'[j].refundId # NoRefundRef
       /\ (rfLast'.op = "approve" /\ ApproveBegin(rfLast'.id)) =>
             LET rf == rfLast'.id
             IN /\ ~HasRefund(rf) => rfLast'.code = 404
                /\ (HasRefund(rf) /\ ~Has(Refund(rf).rideId)) => rfLast'.code = 400
                /\ (HasRefund(rf) /\ Has(Refund(rf).rideId)
                       /\ Obj(Refund(rf).rideId).paymentIntentId = NoPi) =>
                      rfLast'.code = 400
                /\ rfLast'.code # 0 => UNCHANGED <<rfObjs, refunds, refundCalls>>
                /\ rfLast'.code = 400 => Refund(rf).refundId = NoRefundRef
       /\ \A j \in 1..Len(rfObjs) :
             ApproveResume(j, FALSE) =>
                 /\ rfLast'.code = 500
                 /\ UNCHANGED <<rfObjs, refunds, refundCalls>>
                 /\ rfObjs'[j].refundId = NoRefundRef]_vars

\* ---------------------------------------------------------------------------
\* C31: a refund request is resolved at most once: a record whose status is
\* refunded or rejected keeps that status whatever approve or reject call
\* follows, and no record ever has more than one processor refund call issued
\* for it.
C31_ResolvedOnce ==
    [][\A j \in 1..Len(rfObjs) :
         /\ rfObjs[j].status \in {"refunded", "rejected"} =>
               rfObjs'[j].status = rfObjs[j].status
         /\ refundCalls'[j] <= 1]_vars

\* ---------------------------------------------------------------------------
\* One relation after another, and the pairs of statuses of which the first
\* comes earlier in the lifecycle than the second: the edges and their chains.
Then(R, S) == {<<p[1], q[2]>> : <<p, q>> \in {pq \in R \X S : pq[1][2] = pq[2][1]}}
Before == Edges \cup Then(Edges, Edges) \cup Then(Then(Edges, Edges), Edges)

\* C32: no connection receives a ride.snapshot or ride.updated event whose
\* status comes earlier in the lifecycle than the status of an event it has
\* already received.
C32_StatusesNeverGoBack ==
    [][\A s \in Sockets :
         (/\ s \in last'.sentTo \ sockBroken
          /\ last'.event.type \in {"ride.snapshot", "ride.updated"}) =>
             \A y \in heard[s] : <<last'.event.status, y>> \notin Before]_vars

\* ---------------------------------------------------------------------------
\* C33: a room is in the room map only while it has members: every ride id
\* that rideRooms holds has at least one connection in its set.
C33_NoEmptyRoom == \A id \in DOMAIN rideRooms : rideRooms[id] # {}

====
